---- MODULE Spec2Model ----
(***************************************************************************)
(* Vulnix (src/Vulnix-TestVersion.py): VulnixAutomator.save_script, its    *)
(* dry-run wrapper, and the run of the shell script it writes (Spec); the  *)
(* flow of main (MainSpec); bootstrap_venv and its processes (BootSpec);   *)
(* the wrappers of the other revisions (RevSpec); the runs of              *)
(* trivy_auto_fix_v18-4 (V18Spec) and its --top-CVES trimming (TrimSpec).  *)
(*                                                                         *)
(* Script text and script lines are TLA+ strings; every Python string      *)
(* operation the wrapper uses (strip, startswith, in, replace, splitlines, *)
(* join) is computed character by character.                               *)
(***************************************************************************)
EXTENDS Integers, Sequences, FiniteSets, TLC

VARIABLES
    content,    \* save_script's argument: the script text returned by generate_fix
    dry_run,    \* self.config.dry_run
    lines,      \* save_script's local `lines` (content.splitlines()), <<>> until set
    new_lines,  \* save_script's local `new_lines`, <<>> until set
    file,       \* text of the file at fix_script_path, NoFile while it does not exist
    mode,       \* permission bits of that file (0 while it does not exist)
    script,     \* the lines of the file as the shell that runs it read them, <<>> before
    phase,      \* main's position: a step of main, then "start" (save_script is called) |
                \* "skipped" | "saved" | "running" | "done" | "exited"
    pc,         \* the shell's position in the written script (index of the next line)
    confirm,    \* the shell variable $confirm ("" before the first read, as it expands)
    asked,      \* index of the script line of the last prompt that was answered, 0 if none
    last,       \* index of the script line of the last command that was executed, 0 if none
    revision,   \* which revision of the program is running (the name of its source file)
    env,        \* what main finds: [windows: platform.system() == "Windows", api_key: a key is set]
    trace,      \* the steps of main carried out so far, each [step, ok], in order
    exit_code,  \* the status the program exited with, -1 while it has not exited
    total,      \* analyze_report's stats["total"], -1 until the report is counted
    tui,        \* main was started without arguments (interactive menu)
    consent,    \* generate_fix's question: "not_asked" | "yes" | "no"
    procs,      \* Vulnix-TestVersion's processes of one invocation, parent first
    desktop,    \* v18-4: ~/Desktop, [scripts: the fix scripts written, latest: the entry
                \* fix_trivy_issues_latest.sh]
    run         \* v18-4: the run in progress, [at: its position, ...]

\* what main has besides save_script's state
main_vars == <<revision, env, trace, exit_code>>

\* what main's interaction with the operator and the report adds
ui_vars == <<total, tui, consent>>

\* the bootstrap's processes
boot_vars == <<procs>>

\* the state of trivy_auto_fix_v18-4's runs
v18_vars == <<desktop, run>>

other_vars == <<ui_vars, boot_vars, v18_vars>>

vars == <<content, dry_run, lines, new_lines, file, mode, script, phase, pc, confirm, asked, last,
          revision, env, trace, exit_code, total, tui, consent, procs, desktop, run>>

NoFile == [exists |-> FALSE]

\* no process of the bootstrap, no run of v18-4, an empty ~/Desktop
NoProcs == <<>>
NoRun == [at |-> "none"]
EmptyDesktop == [scripts |-> {}, latest |-> [kind |-> "absent"]]

-----------------------------------------------------------------------------
(* Bounds of the exploration.                                              *)

\* longest input script, in lines, built from ScriptLines
MaxLines == 3
\* most argument phrases appended to a head in a generated one-line script
MaxArgs == 1
\* longest input script, in lines, whose written file is also run by the shell
MaxRunLines == 2
\* most vulnerabilities analyze_report counts in a report
MaxTotal == 2

-----------------------------------------------------------------------------
(* Python string operations.                                               *)

\* s[i] as a one-character string
Char(s, i) == SubSeq(s, i, i)

\* s[i:] (1-based i)
From(s, i) == SubSeq(s, i, Len(s))

\* str.startswith
StartsWith(s, p) == Len(p) <= Len(s) /\ SubSeq(s, 1, Len(p)) = p

\* `p in s`
Contains(s, p) == \E i \in 1..(Len(s) - Len(p) + 1) : SubSeq(s, i, i + Len(p) - 1) = p

\* the whitespace str.strip() removes, as far as a TLA+ string can hold it
IsSpace(c) == c \in {" ", "\t", "\n", "\r", "\f"}

RECURSIVE LStrip(_)
LStrip(s) == IF s # "" /\ IsSpace(Char(s, 1)) THEN LStrip(From(s, 2)) ELSE s

RECURSIVE RStrip(_)
RStrip(s) == IF s # "" /\ IsSpace(Char(s, Len(s))) THEN RStrip(SubSeq(s, 1, Len(s) - 1)) ELSE s

\* str.strip()
Strip(s) == RStrip(LStrip(s))

\* str.replace(a, b) for a one-character a
RECURSIVE Replace(_, _, _)
Replace(s, a, b) ==
    IF s = "" THEN ""
    ELSE (IF Char(s, 1) = a THEN b ELSE Char(s, 1)) \o Replace(From(s, 2), a, b)

\* the least element of a non-empty set of numbers
Min(S) == CHOOSE x \in S : \A y \in S : x <= y

\* str.splitlines() from position `start`: a line ends at \n, \r, \r\n or \f, and
\* the text after the last line end is a line only when it is not empty
RECURSIVE SplitLinesFrom(_, _)
SplitLinesFrom(s, start) ==
    IF start > Len(s) THEN <<>>
    ELSE LET ends == {i \in start..Len(s) : Char(s, i) \in {"\n", "\r", "\f"}}
         IN  IF ends = {} THEN << From(s, start) >>
             ELSE LET e == Min(ends)
                      next == IF e < Len(s) /\ SubSeq(s, e, e + 1) = "\r\n" THEN e + 2 ELSE e + 1
                  IN  << SubSeq(s, start, e - 1) >> \o SplitLinesFrom(s, next)

SplitLines(s) == SplitLinesFrom(s, 1)

\* "\n".join(seq)
RECURSIVE Join(_)
Join(seq) ==
    IF seq = <<>> THEN ""
    ELSE IF Len(seq) = 1 THEN seq[1]
    ELSE seq[1] \o "\n" \o Join(Tail(seq))

-----------------------------------------------------------------------------
(* The dry-run wrapper.                                                    *)

\* Faulty variant: the list without zypper.
DangerousWithoutZypper ==
    << "apt-get", "apt", "yum", "dnf", "apk", "pacman",
       "rm ", "mv ", "cp ", "sed ", "chmod ", "chown ", "dd ",
       "systemctl", "service", "pip ", "npm ", "yarn ", "poetry ",
       "wget", "curl", "dpkg", "rpm" >>

DANGEROUS_COMMANDS ==
    << "apt-get", "apt", "yum", "dnf", "apk", "pacman", "zypper",
       "rm ", "mv ", "cp ", "sed ", "chmod ", "chown ", "dd ",
       "systemctl", "service", "pip ", "npm ", "yarn ", "poetry ",
       "wget", "curl", "dpkg", "rpm" >>

\* The backquote character.  A TLA+ string literal cannot hold one, so the model
\* writes it as @, a character that occurs in no other text of the model.
Backquote == "@"

\* Faulty variant: the list without "fi".
ComplexMarkersWithoutFi ==
    << ";", "|", "&", "(", ")", "{", "}", "\\", Backquote, "if ", "then", "else", "elif",
       "do", "done", "case", "esac" >>

COMPLEX_MARKERS ==
    << ";", "|", "&", "(", ")", "{", "}", "\\", Backquote, "if ", "then", "else", "elif",
       "fi", "do", "done", "case", "esac" >>

\* check 1: `not l or l.startswith("#")`
IsBlankOrComment(l) == l = "" \/ StartsWith(l, "#")

\* Faulty variant of check 2: only a tab counts as indentation.
IsIndentedTabOnly(line) == StartsWith(line, "\t")

\* check 2: `line.startswith(" ") or line.startswith("\t")`
IsIndented(line) == StartsWith(line, " ") \/ StartsWith(line, "\t")

\* check 3: `any(marker in l for marker in COMPLEX_MARKERS)`
HasComplexMarker(l) == \E k \in 1..Len(COMPLEX_MARKERS) : Contains(l, COMPLEX_MARKERS[k])

\* check 4: the loop over DANGEROUS_COMMANDS
IsDangerous(l) == \E k \in 1..Len(DANGEROUS_COMMANDS) : StartsWith(l, DANGEROUS_COMMANDS[k])

\* Faulty variant of check 5: the `not` forgotten.
IsSimpleRedirectInverted(l) == Contains(l, " > ") /\ Contains(l, " >> ")

\* Faulty variant of check 5: any `>` counts.
IsAnyRedirect(l) == Contains(l, ">")

\* check 5: `" > " in l and not " >> " in l`
IsSimpleRedirect(l) == Contains(l, " > ") /\ ~Contains(l, " >> ")

\* Faulty variant: check 2 left out.
ShouldWrapIgnoresIndent(line) ==
    LET l == Strip(line)
    IN  IF IsBlankOrComment(l) THEN FALSE
        ELSE IF HasComplexMarker(l) THEN FALSE
        ELSE IsDangerous(l) \/ IsSimpleRedirect(l)

\* Faulty variant: checks 4 and 5 made before check 3.
ShouldWrapDangerFirst(line) ==
    LET l == Strip(line)
    IN  IF IsBlankOrComment(l) THEN FALSE
        ELSE IF IsIndented(line) THEN FALSE
        ELSE IF IsDangerous(l) \/ IsSimpleRedirect(l) THEN TRUE
        ELSE FALSE

\* the value of should_wrap at the end of the if/elif chain
ShouldWrap(line) ==
    LET l == Strip(line)
    IN  IF IsBlankOrComment(l) THEN FALSE
        ELSE IF IsIndented(line) THEN FALSE
        ELSE IF HasComplexMarker(l) THEN FALSE
        ELSE IsDangerous(l) \/ IsSimpleRedirect(l)

\* Faulty variant: the double quotes are not escaped.
SafeTextUnescaped(l) == Replace(l, "'", "")

\* safe_l: `l.replace('"', '\\"').replace("'", "")`
SafeText(l) == Replace(Replace(l, "\"", "\\\""), "'", "")

PromptLine(l) == "read -p \"[DRY-RUN] Execute: " \o SafeText(l) \o "? [y/N] \" confirm"

TestLine == "if [[ $confirm == [yY] || $confirm == [yY]es ]]; then"

BodyLine(line) == "    " \o line

FiLine == "fi"

\* Faulty variant: the prompt is emitted, the test and fi are not.
WrapLineUnguarded(line) ==
    IF ShouldWrap(line)
    THEN << PromptLine(Strip(line)), BodyLine(line) >>
    ELSE << line >>

\* Faulty variant: the trimmed text is emitted in place of the line.
WrapLineStripped(line) ==
    IF ShouldWrap(line)
    THEN << PromptLine(Strip(line)), TestLine, BodyLine(Strip(line)), FiLine >>
    ELSE << Strip(line) >>

\* Faulty variant: blank lines are dropped.
WrapLineDropsBlank(line) ==
    IF ShouldWrap(line)
    THEN << PromptLine(Strip(line)), TestLine, BodyLine(line), FiLine >>
    ELSE IF Strip(line) = "" THEN << >> ELSE << line >>

\* Faulty variant: the `else` is missing, a gated line is also appended bare.
WrapLineNoElse(line) ==
    IF ShouldWrap(line)
    THEN << PromptLine(Strip(line)), TestLine, BodyLine(line), FiLine, line >>
    ELSE << line >>

\* what one iteration of `for line in lines` appends to new_lines
WrapLine(line) ==
    IF ShouldWrap(line)
    THEN << PromptLine(Strip(line)), TestLine, BodyLine(line), FiLine >>
    ELSE << line >>

\* Faulty variant: the loop remembers that it is between a `do` line and its
\* `done` line and gates nothing there.
RECURSIVE DryRunWrapFrom(_, _)
DryRunWrapFrom(ls, in_loop) ==
    IF ls = <<>> THEN <<>>
    ELSE LET l == Strip(Head(ls))
             opens == Len(l) >= 2 /\ SubSeq(l, Len(l) - 1, Len(l)) = "do"
             closes == l = "done"
         IN  (IF in_loop THEN << Head(ls) >> ELSE WrapLine(Head(ls)))
                 \o DryRunWrapFrom(Tail(ls), (in_loop \/ opens) /\ ~closes)

DryRunWrapLoopAware(ls) == DryRunWrapFrom(ls, FALSE)

\* new_lines after the loop
RECURSIVE DryRunWrap(_)
DryRunWrap(ls) == IF ls = <<>> THEN <<>> ELSE WrapLine(Head(ls)) \o DryRunWrap(Tail(ls))

Shebang == "#!/bin/bash\n"

\* Faulty variant: the shebang line is written without looking at the text.
WrittenAlwaysShebang(text) == Shebang \o text

\* what the `with open(...)` block writes
Written(text) == IF StartsWith(text, "#!") THEN text ELSE Shebang \o text


\* 0o755
FixScriptMode == 493

-----------------------------------------------------------------------------
(* The shell running the written script, one line at a time.  A line that  *)
(* is not part of a confirmation block is one opaque command.              *)

\* the script's lines as the shell reads them, from position `start`: a line ends at \n
RECURSIVE ShellLinesFrom(_, _)
ShellLinesFrom(s, start) ==
    IF start > Len(s) THEN <<>>
    ELSE LET ends == {i \in start..Len(s) : Char(s, i) = "\n"}
         IN  IF ends = {} THEN << From(s, start) >>
             ELSE LET e == Min(ends)
                  IN  << SubSeq(s, start, e - 1) >> \o ShellLinesFrom(s, e + 1)

ShellLines(s) == ShellLinesFrom(s, 1)

\* `read -p "..." confirm`
IsReadLine(t) ==
    /\ StartsWith(t, "read -p \"")
    /\ Len(t) >= 9
    /\ SubSeq(t, Len(t) - 8, Len(t)) = "\" confirm"

\* [[ $confirm == [yY] || $confirm == [yY]es ]]
Affirmative(c) ==
    \/ Len(c) = 1 /\ c \in {"y", "Y"}
    \/ Len(c) = 3 /\ Char(c, 1) \in {"y", "Y"} /\ From(c, 2) = "es"

\* the line after the first `fi` below line k (past the end when there is none)
AfterFi(ls, k) ==
    LET fis == {j \in (k + 1)..Len(ls) : Strip(ls[j]) = FiLine}
    IN  IF fis = {} THEN Len(ls) + 1
        ELSE Min(fis) + 1

-----------------------------------------------------------------------------
(* Inputs.                                                                 *)

\* what the operator may type at a prompt
Answers == {"y", "Y", "yes", "Yes", "", "n", "YES"}

\* lines of the multi-line input scripts
ScriptLines ==
    { "",
      "#!/bin/bash",
      "# update system",
      "for f in a b; do",
      "    rm -rf $f",
      "rm -rf $f",
      "done",
      "apt-get install -y curl",
      "echo \"x\" > /etc/resolv.conf",
      "echo \"x\" >> /var/log/app.log" }

Scripts == UNION {[1..n -> ScriptLines] : n \in 0..MaxLines}

\* first words of the generated one-line scripts
Heads ==
    { "", "#", "apt", "apt-get", "yum", "dnf", "apk", "pacman", "zypper",
      "pip", "npm", "yarn", "poetry", "rm", "echo", "curl" }

\* argument phrases appended to a head
Args ==
    { " install -y curl", "3 install flask", " x", " 'x'", " \"x\"",
      " > /etc/resolv.conf", " >> /var/log/app.log", " >/etc/resolv.conf",
      " | bash", ";", " $(x)", " @x@", " \\", " {}",
      " if", " then", " else", " elif", " fi", " do", " done", " case", " esac",
      " function" }

RECURSIVE Concat(_)
Concat(seq) == IF seq = <<>> THEN "" ELSE Head(seq) \o Concat(Tail(seq))

OneLiners ==
    { h \o Concat(as) : h \in Heads, as \in UNION {[1..n -> Args] : n \in 0..MaxArgs} }

\* further scripts: commands whose words hold the letters of a keyword, words
\* that begin with the letters of a listed command, plain assignments, lines of
\* whitespace only
Examples ==
    { "apt-get install sudo", "rm -rf /tmp/file", "chmod 600 /etc/config",
      "service_name=nginx", "aptitude install x", "x=1", "ls -l",
      "pip install python3", "x=1\n \t\nrm -rf $f", "\n" }

Inputs == {Join(s) : s \in Scripts} \cup OneLiners \cup Examples

-----------------------------------------------------------------------------
(* State machine.                                                          *)

\* the steps of main, in the order main calls them
Steps ==
    << "check_dependencies", "ensure_sudo", "trivy_scan", "analyze_report",
       "generate_html_report", "llm_request" >>

\* the trace of a run that has come to save_script on Linux with an API key
DoneBeforeSave == [k \in 1..Len(Steps) |-> [step |-> Steps[k], ok |-> TRUE]]

\* main has called save_script with the text generate_fix returned
Init ==
    /\ content \in Inputs
    /\ dry_run \in BOOLEAN
    /\ lines = <<>>
    /\ new_lines = <<>>
    /\ file = NoFile
    /\ mode = 0
    /\ script = <<>>
    /\ phase = "start"
    /\ pc = 0
    /\ confirm = ""
    /\ asked = 0
    /\ last = 0
    /\ revision = "Vulnix-TestVersion"
    /\ env = [windows |-> FALSE, api_key |-> TRUE]
    /\ trace = DoneBeforeSave
    /\ exit_code = -1
    /\ total = 1
    /\ tui = FALSE
    /\ consent = IF dry_run THEN "not_asked" ELSE "yes"
    /\ procs = NoProcs
    /\ desktop = EmptyDesktop
    /\ run = NoRun

\* Faulty variant: the file is opened for writing before content is tested.
SaveNothingTruncates ==
    /\ phase = "start"
    /\ content = ""
    /\ phase' = "skipped"
    /\ file' = [exists |-> TRUE, text |-> ""]
    /\ UNCHANGED <<content, dry_run, lines, new_lines, mode, script, pc, confirm, asked, last, main_vars, other_vars>>

\* save_script(content) with content falsy: `if not content: return`
SaveNothing ==
    /\ phase = "start"
    /\ content = ""
    /\ phase' = "skipped"
    /\ UNCHANGED <<content, dry_run, lines, new_lines, file, mode, script, pc, confirm, asked, last, main_vars, other_vars>>

\* Faulty variant: the wrapper runs whatever dry_run is.
SaveScriptAlwaysWraps ==
    /\ phase = "start"
    /\ content # ""
    /\ LET ls == SplitLines(content)
           nl == DryRunWrap(ls)
       IN  /\ lines' = ls
           /\ new_lines' = nl
           /\ file' = [exists |-> TRUE, text |-> Written(Join(nl))]
    /\ mode' = FixScriptMode
    /\ phase' = "saved"
    /\ UNCHANGED <<content, dry_run, script, pc, confirm, asked, last, main_vars, other_vars>>

\* save_script(content): wrap when dry_run, write the file, chmod it
SaveScript ==
    /\ phase = "start"
    /\ content # ""
    /\ LET ls == IF dry_run THEN SplitLines(content) ELSE <<>>
           nl == DryRunWrap(ls)
           text == IF dry_run THEN Join(nl) ELSE content
       IN  /\ lines' = ls
           /\ new_lines' = nl
           /\ file' = [exists |-> TRUE, text |-> Written(text)]
    /\ mode' = FixScriptMode
    /\ phase' = "saved"
    /\ UNCHANGED <<content, dry_run, script, pc, confirm, asked, last, main_vars, other_vars>>

\* the operator starts the written script
RunScript ==
    /\ phase = "saved"
    /\ mode = FixScriptMode
    /\ Len(SplitLines(content)) <= MaxRunLines
    /\ script' = ShellLines(file.text)
    /\ phase' = "running"
    /\ pc' = 1
    /\ UNCHANGED <<content, dry_run, lines, new_lines, file, mode, confirm, asked, last, main_vars, other_vars>>

AtLine == phase = "running" /\ pc \in 1..Len(script)

\* read -p "..." confirm: the prompt is shown and the answer stored
ExecRead ==
    /\ AtLine
    /\ IsReadLine(script[pc])
    /\ \E a \in Answers : confirm' = a
    /\ asked' = pc
    /\ pc' = pc + 1
    /\ UNCHANGED <<content, dry_run, lines, new_lines, file, mode, script, phase, last, main_vars, other_vars>>

\* if [[ ... ]]; then: enter the branch, or continue after its fi
ExecIf ==
    /\ AtLine
    /\ Strip(script[pc]) = TestLine
    /\ pc' = IF Affirmative(confirm) THEN pc + 1 ELSE AfterFi(script, pc)
    /\ UNCHANGED <<content, dry_run, lines, new_lines, file, mode, script, phase, confirm, asked, last, main_vars, other_vars>>

\* fi, a blank line or a comment: nothing runs
ExecNoOp ==
    /\ AtLine
    /\ LET t == Strip(script[pc])
       IN  t = FiLine \/ IsBlankOrComment(t)
    /\ pc' = pc + 1
    /\ UNCHANGED <<content, dry_run, lines, new_lines, file, mode, script, phase, confirm, asked, last, main_vars, other_vars>>

\* any other line: the command on it runs
ExecCommand ==
    /\ AtLine
    /\ LET t == Strip(script[pc])
       IN  /\ ~IsReadLine(script[pc])
           /\ t # TestLine
           /\ t # FiLine
           /\ ~IsBlankOrComment(t)
    /\ last' = pc
    /\ pc' = pc + 1
    /\ UNCHANGED <<content, dry_run, lines, new_lines, file, mode, script, phase, confirm, asked, main_vars, other_vars>>

\* end of the script
ExecEnd ==
    /\ phase = "running"
    /\ pc = Len(script) + 1
    /\ phase' = "done"
    /\ UNCHANGED <<content, dry_run, lines, new_lines, file, mode, script, pc, confirm, asked, last, main_vars, other_vars>>

Next ==
    \/ SaveNothing
    \/ SaveScript
    \/ RunScript
    \/ ExecRead
    \/ ExecIf
    \/ ExecNoOp
    \/ ExecCommand
    \/ ExecEnd

Spec == Init /\ [][Next]_vars

-----------------------------------------------------------------------------
(* main of Vulnix-TestVersion: the execution flow from check_dependencies  *)
(* to save_script.  sys.exit and an exception nobody catches end the       *)
(* program: phase "exited" with the exit status.                           *)

\* the Markdown fence, three backquotes
Fence == Backquote \o Backquote \o Backquote

\* generate_fix: script_content, from response.text
CleanReply(text) ==
    LET sc == Strip(text)
    IN  IF StartsWith(sc, Fence)
        THEN LET ls == SplitLines(sc)
                 l1 == IF StartsWith(ls[1], Fence) THEN Tail(ls) ELSE ls
                 l2 == IF l1 # <<>> /\ StartsWith(l1[Len(l1)], Fence)
                       THEN SubSeq(l1, 1, Len(l1) - 1) ELSE l1
             IN  Join(l2)
        ELSE sc

\* texts the model may reply with
Replies ==
    { "", "apt-get install -y curl", "  x=1\n",
      "#!/bin/bash\nrm -rf /tmp/file\n",
      Fence \o "bash\napt-get update\n" \o Fence,
      Fence \o "\nservice_name=nginx\n" \o Fence \o "\n",
      Fence }

MainInit ==
    /\ content = ""
    /\ dry_run \in BOOLEAN
    /\ lines = <<>>
    /\ new_lines = <<>>
    /\ file = NoFile
    /\ mode = 0
    /\ script = <<>>
    /\ phase = "check_dependencies"
    /\ pc = 0
    /\ confirm = ""
    /\ asked = 0
    /\ last = 0
    /\ revision = "Vulnix-TestVersion"
    /\ env \in [windows : BOOLEAN, api_key : BOOLEAN]
    /\ trace = <<>>
    /\ exit_code = -1
    /\ total = -1
    /\ tui \in BOOLEAN
    /\ consent = "not_asked"
    /\ procs = NoProcs
    /\ desktop = EmptyDesktop
    /\ run = NoRun

\* a step of main is carried out: it is logged; when it fails the program exits
\* with status 1, otherwise main goes on to `next`
StepOutcome(step, ok, next) ==
    /\ trace' = Append(trace, [step |-> step, ok |-> ok])
    /\ phase' = IF ok THEN next ELSE "exited"
    /\ exit_code' = IF ok THEN exit_code ELSE 1

\* app.check_dependencies(): shutil.which("trivy"), sys.exit(1) when it is missing
CheckDependencies ==
    /\ phase = "check_dependencies"
    /\ \E found \in BOOLEAN : StepOutcome("check_dependencies", found, "ensure_sudo")
    /\ UNCHANGED <<content, dry_run, lines, new_lines, file, mode, script, pc, confirm, asked, last,
                   revision, env, other_vars>>

\* run_scan: self._ensure_sudo(): `sudo -v` unless on Windows, sys.exit(1) when it fails
EnsureSudo ==
    /\ phase = "ensure_sudo"
    /\ IF env.windows
       THEN /\ phase' = "trivy_scan"
            /\ UNCHANGED <<trace, exit_code>>
       ELSE \E ok \in BOOLEAN : StepOutcome("ensure_sudo", ok, "trivy_scan")
    /\ UNCHANGED <<content, dry_run, lines, new_lines, file, mode, script, pc, confirm, asked, last,
                   revision, env, other_vars>>

\* Faulty variant: the scan's exit status is not checked.
TrivyScanUnchecked ==
    /\ phase = "trivy_scan"
    /\ \E ok \in BOOLEAN : trace' = Append(trace, [step |-> "trivy_scan", ok |-> ok])
    /\ phase' = "analyze_report"
    /\ UNCHANGED <<content, dry_run, lines, new_lines, file, mode, script, pc, confirm, asked, last,
                   revision, env, exit_code, other_vars>>

\* run_scan: subprocess.run(cmd, check=True), sys.exit(1) on CalledProcessError
TrivyScan ==
    /\ phase = "trivy_scan"
    /\ \E ok \in BOOLEAN : StepOutcome("trivy_scan", ok, "analyze_report")
    /\ UNCHANGED <<content, dry_run, lines, new_lines, file, mode, script, pc, confirm, asked, last,
                   revision, env, other_vars>>

\* Faulty variant: a report without vulnerabilities does not end the program.
AnalyzeReportNoExit ==
    /\ phase = "analyze_report"
    /\ \E n \in 0..MaxTotal :
        /\ total' = n
        /\ trace' = Append(trace, [step |-> "analyze_report", ok |-> TRUE])
        /\ phase' = "generate_html_report"
    /\ UNCHANGED <<content, dry_run, lines, new_lines, file, mode, script, pc, confirm, asked, last,
                   revision, env, exit_code, tui, consent, boot_vars, v18_vars>>

\* app.analyze_report(): the report is read and counted; sys.exit(0) when it holds
\* no vulnerability; open and json.load raise on a missing or malformed report
AnalyzeReport ==
    /\ phase = "analyze_report"
    /\ \/ \* open or json.load raises
          /\ trace' = Append(trace, [step |-> "analyze_report", ok |-> FALSE])
          /\ phase' = "exited"
          /\ exit_code' = 1
          /\ UNCHANGED total
       \/ \* the report holds n vulnerabilities
          \E n \in 0..MaxTotal :
            /\ total' = n
            /\ trace' = Append(trace, [step |-> "analyze_report", ok |-> TRUE])
            /\ phase' = IF n = 0 THEN "exited" ELSE "generate_html_report"
            /\ exit_code' = IF n = 0 THEN 0 ELSE exit_code
    /\ UNCHANGED <<content, dry_run, lines, new_lines, file, mode, script, pc, confirm, asked, last,
                   revision, env, tui, consent, boot_vars, v18_vars>>

\* app.generate_html_report(report_data): open(..., "w") may raise
GenerateHtmlReport ==
    /\ phase = "generate_html_report"
    /\ \E ok \in BOOLEAN : StepOutcome("generate_html_report", ok, "generate_fix")
    /\ UNCHANGED <<content, dry_run, lines, new_lines, file, mode, script, pc, confirm, asked, last,
                   revision, env, other_vars>>

\* app.generate_fix(report_data): None ("" here) without an API key, when the
\* operator declines, or when the API raises; the cleaned reply otherwise
GenerateFix ==
    /\ phase = "generate_fix"
    /\ \/ \* `if not self.api_key: return None`
          /\ ~env.api_key
          /\ content' = ""
          /\ UNCHANGED <<trace, consent>>
       \/ \* the question is asked (dry_run is off) and not answered with yes
          /\ env.api_key /\ ~dry_run
          /\ consent' = "no"
          /\ content' = ""
          /\ UNCHANGED trace
       \/ \* the request is sent: the question is skipped when dry_run is on
          \* (`not self.config.dry_run and ...`), answered with yes otherwise
          /\ env.api_key
          /\ consent' = IF dry_run THEN consent ELSE "yes"
          /\ \/ \E reply \in Replies :
                   /\ content' = CleanReply(reply)
                   /\ trace' = Append(trace, [step |-> "llm_request", ok |-> TRUE])
             \/ \* generate_content or response.text raises
                /\ content' = ""
                /\ trace' = Append(trace, [step |-> "llm_request", ok |-> FALSE])
    /\ phase' = "start"
    /\ UNCHANGED <<dry_run, lines, new_lines, file, mode, script, pc, confirm, asked, last,
                   revision, env, exit_code, total, tui, boot_vars, v18_vars>>

\* main returns after save_script
MainEnd ==
    /\ phase \in {"saved", "skipped"}
    /\ phase' = "exited"
    /\ exit_code' = 0
    /\ UNCHANGED <<content, dry_run, lines, new_lines, file, mode, script, pc, confirm, asked, last,
                   revision, env, trace, other_vars>>

MainNext ==
    \/ CheckDependencies
    \/ EnsureSudo
    \/ TrivyScan
    \/ AnalyzeReport
    \/ GenerateHtmlReport
    \/ GenerateFix
    \/ SaveNothing
    \/ SaveScript
    \/ MainEnd

MainSpec == MainInit /\ [][MainNext]_vars

-----------------------------------------------------------------------------
(* The dry-run wrappers of the other revisions: save_script of             *)
(* trivy_auto_fix_vGemini and of Vulnix-TestReportingHTML (the same text), *)
(* and the end of the script trivy_auto_fix_v18-4.                         *)

OtherRevisions ==
    {"trivy_auto_fix_vGemini", "Vulnix-TestReportingHTML", "trivy_auto_fix_v18-4"}

\* str.endswith
EndsWith(s, p) == Len(p) <= Len(s) /\ SubSeq(s, Len(s) - Len(p) + 1, Len(s)) = p

\* `any(x in l for x in seq)`
ContainsAny(l, seq) == \E k \in 1..Len(seq) : Contains(l, seq[k])

\* vGemini: the list of the `if` of save_script
GEMINI_SKIP == << "if ", "fi", "then", "else", "do", "done", "read", "echo", "python", "exit" >>

\* vGemini: the condition of the `if` of save_script
ShouldWrapGemini(line) ==
    LET l == Strip(line)
    IN  l # "" /\ ~StartsWith(l, "#") /\ ~ContainsAny(l, GEMINI_SKIP)

\* vGemini: what one iteration appends to new_lines
WrapLineGemini(line) ==
    IF ShouldWrapGemini(line)
    THEN << "read -p \"[DRY-RUN] Execute: " \o Strip(line) \o "? [y/N] \" confirm",
            "if [[ $confirm == [yY] ]]; then",
            "    " \o line,
            "fi" >>
    ELSE << line >>

RECURSIVE WrapGemini(_)
WrapGemini(ls) == IF ls = <<>> THEN <<>> ELSE WrapLineGemini(Head(ls)) \o WrapGemini(Tail(ls))

\* v18-4: the two lists of the `if` of the dry-run wrapping
V18_BLOCK_MARKERS == << "{", "}", ";;", ")", "case", "esac", "function" >>
V18_FLOW_WORDS == << "do", "while", "for", "if", "done", "then" >>

\* v18-4: the condition of the `if` of the dry-run wrapping
ShouldWrapV18(line) ==
    LET cmd == Strip(line)
    IN  /\ cmd # "" /\ ~StartsWith(cmd, "#") /\ ~StartsWith(cmd, "echo")
        /\ ~ContainsAny(cmd, V18_BLOCK_MARKERS)
        /\ ~ContainsAny(cmd, V18_FLOW_WORDS)
        /\ ~EndsWith(cmd, "do") /\ ~EndsWith(cmd, "then")
        /\ ~Contains(cmd, "pip install python3")

\* v18-4: what one iteration appends to wrapped_lines
WrapLineV18(line) ==
    LET cmd == Strip(line)
    IN  IF ShouldWrapV18(line)
        THEN << "read -p '[?] Run: " \o cmd \o " ? [y/N]: ' answer",
                "if [[ $answer == \"y\" || $answer == \"Y\" ]]; then",
                "  " \o cmd,
                "else",
                "  echo \"Skipped.\"",
                "fi" >>
        ELSE << cmd >>

RECURSIVE WrapV18(_)
WrapV18(ls) == IF ls = <<>> THEN <<>> ELSE WrapLineV18(Head(ls)) \o WrapV18(Tail(ls))

RevInit ==
    /\ content \in Inputs
    /\ dry_run \in BOOLEAN
    /\ lines = <<>>
    /\ new_lines = <<>>
    /\ file = NoFile
    /\ mode = 0
    /\ script = <<>>
    /\ phase = "start"
    /\ pc = 0
    /\ confirm = ""
    /\ asked = 0
    /\ last = 0
    /\ revision \in OtherRevisions
    /\ env = [windows |-> FALSE, api_key |-> TRUE]
    /\ trace = <<>>
    /\ exit_code = -1
    /\ total = -1
    /\ tui = FALSE
    /\ consent = "not_asked"
    /\ procs = NoProcs
    /\ desktop = EmptyDesktop
    /\ run = NoRun

\* vGemini, TestReportingHTML: save_script(content) with content falsy
SaveNothingOther ==
    /\ phase = "start"
    /\ revision \in {"trivy_auto_fix_vGemini", "Vulnix-TestReportingHTML"}
    /\ content = ""
    /\ phase' = "skipped"
    /\ UNCHANGED <<content, dry_run, lines, new_lines, file, mode, script, pc, confirm, asked, last,
                   main_vars, other_vars>>

\* the body of save_script of vGemini and of TestReportingHTML
SaveOther ==
    /\ phase = "start"
    /\ content # ""
    /\ LET ls == IF dry_run THEN SplitLines(content) ELSE <<>>
           nl == WrapGemini(ls)
           text == IF dry_run THEN Join(nl) ELSE content
       IN  /\ lines' = ls
           /\ new_lines' = nl
           /\ file' = [exists |-> TRUE, text |-> Written(text)]
    /\ mode' = FixScriptMode
    /\ phase' = "saved"
    /\ UNCHANGED <<content, dry_run, script, pc, confirm, asked, last, main_vars, other_vars>>

\* trivy_auto_fix_vGemini: save_script(content)
SaveScriptGemini == revision = "trivy_auto_fix_vGemini" /\ SaveOther

\* Vulnix-TestReportingHTML: save_script(content)
SaveScriptReportingHTML == revision = "Vulnix-TestReportingHTML" /\ SaveOther

\* trivy_auto_fix_v18-4: the dry-run wrapping, the write and the chmod
WriteFixScriptV18 ==
    /\ phase = "start"
    /\ revision = "trivy_auto_fix_v18-4"
    /\ LET ls == IF dry_run THEN SplitLines(content) ELSE <<>>
           nl == WrapV18(ls)
           text == IF dry_run THEN Concat(nl) ELSE content
       IN  /\ lines' = ls
           /\ new_lines' = nl
           /\ file' = [exists |-> TRUE, text |-> text]
    /\ mode' = FixScriptMode
    /\ phase' = "saved"
    /\ UNCHANGED <<content, dry_run, script, pc, confirm, asked, last, main_vars, other_vars>>

RevNext ==
    \/ SaveNothingOther
    \/ SaveScriptGemini
    \/ SaveScriptReportingHTML
    \/ WriteFixScriptV18

RevSpec == RevInit /\ [][RevNext]_vars

-----------------------------------------------------------------------------
(* trivy_auto_fix_v18-4, one run after another on the same ~/Desktop: the   *)
(* script from the timestamp (line 46) to the symlink update (line 210).   *)

\* most runs of v18-4 in a row
MaxRuns == 3
\* most scan targets ("Results") in a report
MaxTargets == 2
\* most vulnerabilities of one target
MaxVulns == 2
\* largest N of --top-CVES=N
MaxTop == 2

MAX_INPUT_TOKENS == 28000

\* vulnerabilities a report may hold: Severity and CVSS.nvd.V3Score (times ten;
\* 0 when the report gives none, as the key function's default)
VulnKinds ==
    { [sev |-> "CRITICAL", score |-> 98],
      [sev |-> "HIGH", score |-> 75],
      [sev |-> "LOW", score |-> 0] }

\* the "Vulnerabilities" lists of one target
VulnLists == UNION {[1..n -> VulnKinds] : n \in 0..MaxVulns}

\* report_data["Results"]: one list of vulnerabilities per target, the target
\* being named by its position
Reports == UNION {[1..n -> VulnLists] : n \in 0..MaxTargets}

\* the reports the scan of a run may produce
ScanReports ==
    { <<>>,
      << <<[sev |-> "HIGH", score |-> 75]>> >>,
      << <<[sev |-> "LOW", score |-> 0], [sev |-> "CRITICAL", score |-> 98]>>,
         <<[sev |-> "HIGH", score |-> 75]>> >> }

\* [v for v in vulns if v.get("Severity") in ["HIGH", "CRITICAL"]]
RECURSIVE HighOnly(_)
HighOnly(vulns) ==
    IF vulns = <<>> THEN <<>>
    ELSE (IF Head(vulns).sev \in {"HIGH", "CRITICAL"} THEN <<Head(vulns)>> ELSE <<>>)
         \o HighOnly(Tail(vulns))

\* sorted(vulns, key=V3Score, reverse=True): stable, equal scores keep their order
RECURSIVE SortedByScore(_)
SortedByScore(vulns) ==
    IF vulns = <<>> THEN <<>>
    ELSE LET v == vulns[Len(vulns)]
             rest == SortedByScore(SubSeq(vulns, 1, Len(vulns) - 1))
             k == Cardinality({i \in 1..Len(rest) : rest[i].score >= v.score})
         IN  SubSeq(rest, 1, k) \o <<v>> \o SubSeq(rest, k + 1, Len(rest))

\* one iteration of `for result in report_data.get("Results", [])`: the vulns kept
KeptVulns(vulns, fix_level, top_cves) ==
    LET f == IF fix_level = "high" THEN HighOnly(vulns) ELSE vulns
    IN  IF top_cves # 0
        THEN SubSeq(SortedByScore(f), 1, IF top_cves < Len(f) THEN top_cves ELSE Len(f))
        ELSE f

\* filtered_results: the targets that keep a vulnerability, in report order
RECURSIVE FilteredFrom(_, _, _, _)
FilteredFrom(report_data, k, fix_level, top_cves) ==
    IF k > Len(report_data) THEN <<>>
    ELSE LET vulns == KeptVulns(report_data[k], fix_level, top_cves)
         IN  (IF vulns # <<>> THEN << [target |-> k, vulns |-> vulns] >> ELSE <<>>)
             \o FilteredFrom(report_data, k + 1, fix_level, top_cves)

FilteredResults(report_data, fix_level, top_cves) ==
    FilteredFrom(report_data, 1, fix_level, top_cves)

\* str.lower, on the letters
UpperLetters == "ABCDEFGHIJKLMNOPQRSTUVWXYZ"
LowerLetters == "abcdefghijklmnopqrstuvwxyz"

LowerChar(c) ==
    IF \E i \in 1..Len(UpperLetters) : Char(UpperLetters, i) = c
    THEN Char(LowerLetters, CHOOSE i \in 1..Len(UpperLetters) : Char(UpperLetters, i) = c)
    ELSE c

RECURSIVE Lower(_)
Lower(s) == IF s = "" THEN "" ELSE LowerChar(Char(s, 1)) \o Lower(From(s, 2))

\* what the operator may type at the proceed question
ProceedAnswers == {"y", "Y", " y ", "\tY", "yes", "n", "", "Yy"}

\* fix_script, from the reply: strip, and a fenced reply loses its first and
\* last line, the others being joined without a separator
CleanReplyV18(text) ==
    LET fs == Strip(text)
    IN  IF StartsWith(fs, Fence)
        THEN LET ls == SplitLines(fs)
             IN  Concat(SubSeq(ls, 2, Len(ls) - 1))
        ELSE fs

\* what is written to FIX_SCRIPT_PATH
FixScriptV18(fix_script, d) ==
    IF d THEN Concat(WrapV18(SplitLines(fix_script))) ELSE fix_script

V18Init ==
    /\ content = ""
    /\ dry_run = FALSE
    /\ lines = <<>>
    /\ new_lines = <<>>
    /\ file = NoFile
    /\ mode = 0
    /\ script = <<>>
    /\ phase = "start"
    /\ pc = 0
    /\ confirm = ""
    /\ asked = 0
    /\ last = 0
    /\ revision = "trivy_auto_fix_v18-4"
    /\ env = [windows |-> FALSE, api_key |-> TRUE]
    /\ trace = <<>>
    /\ exit_code = -1
    /\ total = -1
    /\ tui = FALSE
    /\ consent = "not_asked"
    /\ procs = NoProcs
    /\ desktop = EmptyDesktop
    /\ run = [at |-> "none", stamp |-> 0, link_msg |-> "none"]

\* the variables a run of v18-4 never touches
v18_rest == <<lines, new_lines, script, phase, pc, asked, last, revision, env,
              total, tui, consent, procs>>

\* the run ends with sys.exit(status) or an exception nobody catches (status 1)
V18Exit(status) ==
    /\ run' = [at |-> "exited", stamp |-> run.stamp, link_msg |-> run.link_msg]
    /\ exit_code' = status

\* a run starts: timestamp and file names (46-52), the flags (60-69), fix_level (71-75)
V18Start ==
    /\ run.at \in {"none", "exited"}
    /\ run.stamp < MaxRuns
    /\ \E d \in BOOLEAN, fl \in {"all", "high"}, n \in 0..MaxTop :
        /\ dry_run' = d
        /\ run' = [at |-> "scan", stamp |-> run.stamp + 1, link_msg |-> run.link_msg,
                   fix_level |-> fl, top_cves |-> n]
    /\ content' = ""
    /\ confirm' = ""
    /\ trace' = <<>>
    /\ exit_code' = -1
    /\ file' = NoFile
    /\ mode' = 0
    /\ UNCHANGED <<desktop, v18_rest>>

\* the scan and json.load of the report (77-117); subprocess.run(check=True) raises
\* when trivy fails
V18Scan ==
    /\ run.at = "scan"
    /\ \/ /\ V18Exit(1)
          /\ trace' = Append(trace, [step |-> "trivy_scan", ok |-> FALSE])
       \/ \E r \in ScanReports :
            /\ run' = [run EXCEPT !.at = "filter"] @@ [report_data |-> r]
            /\ trace' = Append(trace, [step |-> "trivy_scan", ok |-> TRUE])
            /\ UNCHANGED exit_code
    /\ UNCHANGED <<content, dry_run, confirm, file, mode, desktop, v18_rest>>

\* filtered_results (119-129)
V18Filter ==
    /\ run.at = "filter"
    /\ run' = [run EXCEPT !.at = "estimate"]
              @@ [filtered_results |-> FilteredResults(run.report_data, run.fix_level, run.top_cves)]
    /\ UNCHANGED <<content, dry_run, confirm, file, mode, desktop, trace, exit_code, v18_rest>>

\* Faulty variant: the estimate is printed, the limit is not enforced.
V18EstimateUnchecked ==
    /\ run.at = "estimate"
    /\ \E tokens_total \in {MAX_INPUT_TOKENS - 1, MAX_INPUT_TOKENS, MAX_INPUT_TOKENS + 1} :
        /\ run' = [run EXCEPT !.at = "confirm"] @@ [tokens_total |-> tokens_total]
        /\ trace' = Append(trace, [step |-> "estimate", ok |-> tokens_total <= MAX_INPUT_TOKENS])
    /\ UNCHANGED <<content, dry_run, confirm, file, mode, desktop, exit_code, v18_rest>>

\* the token estimate and its limit (141-152)
V18Estimate ==
    /\ run.at = "estimate"
    /\ \E tokens_total \in {MAX_INPUT_TOKENS - 1, MAX_INPUT_TOKENS, MAX_INPUT_TOKENS + 1} :
        /\ IF tokens_total > MAX_INPUT_TOKENS
           THEN V18Exit(1)
           ELSE /\ run' = [run EXCEPT !.at = "confirm"] @@ [tokens_total |-> tokens_total]
                /\ UNCHANGED exit_code
        /\ trace' = Append(trace, [step |-> "estimate", ok |-> tokens_total <= MAX_INPUT_TOKENS])
    /\ UNCHANGED <<content, dry_run, confirm, file, mode, desktop, v18_rest>>

\* the proceed question (154-157)
V18Confirm ==
    /\ run.at = "confirm"
    /\ \E answer \in ProceedAnswers :
        /\ confirm' = Lower(Strip(answer))
        /\ IF confirm' # "y"
           THEN V18Exit(0)
           ELSE /\ run' = [run EXCEPT !.at = "request"]
                /\ UNCHANGED exit_code
    /\ UNCHANGED <<content, dry_run, file, mode, desktop, trace, v18_rest>>

\* client.chat.completions.create (159-176): the reply, or an exception
V18Request ==
    /\ run.at = "request"
    /\ \/ \E reply \in Replies :
            /\ content' = CleanReplyV18(reply)
            /\ trace' = Append(trace, [step |-> "openai_request", ok |-> TRUE])
            /\ run' = [run EXCEPT !.at = "write"]
            /\ UNCHANGED exit_code
       \/ /\ trace' = Append(trace, [step |-> "openai_request", ok |-> FALSE])
          /\ V18Exit(1)
          /\ UNCHANGED content
    /\ UNCHANGED <<dry_run, confirm, file, mode, desktop, v18_rest>>

\* the dry-run wrapping, the write and the chmod (178-202)
V18Write ==
    /\ run.at = "write"
    /\ file' = [exists |-> TRUE, text |-> FixScriptV18(content, dry_run)]
    /\ mode' = FixScriptMode
    /\ desktop' = [desktop EXCEPT !.scripts = @ \cup {run.stamp}]
    /\ run' = [run EXCEPT !.at = "link"]
    /\ UNCHANGED <<content, dry_run, confirm, trace, exit_code, v18_rest>>

\* Faulty variant: the old entry is removed, the new link is never made.
V18LinkRemoveOnly ==
    /\ run.at = "link"
    /\ desktop' = [desktop EXCEPT !.latest = [kind |-> "absent"]]
    /\ run' = [at |-> "exited", stamp |-> run.stamp, link_msg |-> "created"]
    /\ exit_code' = 0
    /\ UNCHANGED <<content, dry_run, confirm, file, mode, trace, v18_rest>>

\* the symlink update (204-210): os.remove of an existing entry, os.symlink; an
\* exception of either is caught and reported; then the script ends
V18Link ==
    /\ run.at = "link"
    /\ \/ \* both calls succeed
          /\ desktop' = [desktop EXCEPT !.latest = [kind |-> "link", target |-> run.stamp]]
          /\ run' = [at |-> "exited", stamp |-> run.stamp, link_msg |-> "created"]
       \/ \* os.remove raises: the entry stays as it was
          /\ desktop.latest.kind # "absent"
          /\ UNCHANGED desktop
          /\ run' = [at |-> "exited", stamp |-> run.stamp, link_msg |-> "failed"]
       \/ \* os.symlink raises, after the old entry (if any) was removed
          /\ desktop' = [desktop EXCEPT !.latest = [kind |-> "absent"]]
          /\ run' = [at |-> "exited", stamp |-> run.stamp, link_msg |-> "failed"]
    /\ exit_code' = 0
    /\ UNCHANGED <<content, dry_run, confirm, file, mode, trace, v18_rest>>

V18Next ==
    \/ V18Start
    \/ V18Scan
    \/ V18Filter
    \/ V18Estimate
    \/ V18Confirm
    \/ V18Request
    \/ V18Write
    \/ V18Link

V18Spec == V18Init /\ [][V18Next]_vars

\* the trimming alone, over every report of the bounds
TrimInit ==
    /\ content = ""
    /\ dry_run = FALSE
    /\ lines = <<>>
    /\ new_lines = <<>>
    /\ file = NoFile
    /\ mode = 0
    /\ script = <<>>
    /\ phase = "start"
    /\ pc = 0
    /\ confirm = ""
    /\ asked = 0
    /\ last = 0
    /\ revision = "trivy_auto_fix_v18-4"
    /\ env = [windows |-> FALSE, api_key |-> TRUE]
    /\ trace = <<[step |-> "trivy_scan", ok |-> TRUE]>>
    /\ exit_code = -1
    /\ total = -1
    /\ tui = FALSE
    /\ consent = "not_asked"
    /\ procs = NoProcs
    /\ desktop = EmptyDesktop
    /\ \E r \in Reports, fl \in {"all", "high"}, n \in 0..MaxTop :
        run = [at |-> "filter", stamp |-> 1, link_msg |-> "none",
               fix_level |-> fl, top_cves |-> n, report_data |-> r]

TrimSpec == TrimInit /\ [][V18Filter]_vars

-----------------------------------------------------------------------------
(* Vulnix-TestVersion: bootstrap_venv (lines 30-89) and the processes it    *)
(* starts.  A process is [bootstrapped: VULNIX_BOOTSTRAPPED is "1" in its  *)
(* environment, frozen: sys.frozen, in_venv: sys.prefix == str(venv_dir),  *)
(* at: its position, status: its exit status (-1 while it runs), launched: *)
(* it has re-launched the script, ran: it has run main].                   *)

\* longest chain of processes explored
MaxProcs == 3

\* exit statuses of a process that runs main: main returns or sys.exit(0),
\* sys.exit(1) or an exception nobody catches, an argparse error
WorkflowStatuses == {0, 1, 2}

\* a process as the operating system starts it
NewProc(bootstrapped, frozen, in_venv) ==
    [bootstrapped |-> bootstrapped, frozen |-> frozen, in_venv |-> in_venv,
     at |-> "bootstrap", status |-> -1, launched |-> FALSE, ran |-> FALSE]

\* the variables the bootstrap never touches
boot_rest == <<content, dry_run, lines, new_lines, file, mode, script, phase, pc, confirm,
               asked, last, revision, trace, exit_code, ui_vars, v18_vars>>

\* env here also holds venv_dir: ~/trivy_env exists, and deps: the venv's python
\* imports the required packages
BootInit ==
    /\ content = ""
    /\ dry_run = FALSE
    /\ lines = <<>>
    /\ new_lines = <<>>
    /\ file = NoFile
    /\ mode = 0
    /\ script = <<>>
    /\ phase = "start"
    /\ pc = 0
    /\ confirm = ""
    /\ asked = 0
    /\ last = 0
    /\ revision = "Vulnix-TestVersion"
    /\ \E w \in BOOLEAN, d \in BOOLEAN, p \in BOOLEAN :
        /\ p => d
        /\ env = [windows |-> w, api_key |-> TRUE, venv_dir |-> d, deps |-> p]
    /\ trace = <<>>
    /\ exit_code = -1
    /\ total = -1
    /\ tui = FALSE
    /\ consent = "not_asked"
    /\ desktop = EmptyDesktop
    /\ run = NoRun
    /\ \E b \in BOOLEAN, f \in BOOLEAN, v \in BOOLEAN : procs = << NewProc(b, f, v) >>

\* process i moves to position `at`
Goto(i, at) == procs' = [procs EXCEPT ![i].at = at]

\* process i exits with `status`
ExitProc(i, status) == procs' = [procs EXCEPT ![i].at = "exited", ![i].status = status]

\* the tests at the head of bootstrap_venv (34-56): a frozen, a bootstrapped or
\* an in-venv process returns and goes on to main
BootstrapGuards ==
    /\ \E i \in 1..Len(procs) :
        /\ procs[i].at = "bootstrap"
        /\ IF procs[i].frozen \/ procs[i].bootstrapped \/ procs[i].in_venv
           THEN Goto(i, "main")
           ELSE Goto(i, "venv")
    /\ UNCHANGED <<env, boot_rest>>

\* the venv directory (57-63): it exists, or `python -m venv` creates it, or
\* fails (sys.exit(1))
BootstrapVenvDir ==
    /\ \E i \in 1..Len(procs) :
        /\ procs[i].at = "venv"
        /\ IF env.venv_dir
           THEN Goto(i, "deps") /\ UNCHANGED env
           ELSE \/ Goto(i, "deps") /\ env' = [env EXCEPT !.venv_dir = TRUE]
                \/ ExitProc(i, 1) /\ UNCHANGED env
    /\ UNCHANGED boot_rest

\* the dependencies (65-72): the import check passes, or pip installs them, or
\* pip fails (CalledProcessError of a check=True call outside any try)
BootstrapDeps ==
    /\ \E i \in 1..Len(procs) :
        /\ procs[i].at = "deps"
        /\ IF env.deps
           THEN Goto(i, "launch") /\ UNCHANGED env
           ELSE \/ Goto(i, "launch") /\ env' = [env EXCEPT !.deps = TRUE]
                \/ ExitProc(i, 1) /\ UNCHANGED env
    /\ UNCHANGED boot_rest

\* Faulty variant: the child does not get VULNIX_BOOTSTRAPPED.
BootstrapLaunchNoFlag ==
    /\ \E i \in 1..Len(procs) :
        /\ procs[i].at = "launch"
        /\ Len(procs) < MaxProcs
        /\ \E v \in BOOLEAN :
            procs' = Append([procs EXCEPT ![i].at = "waiting", ![i].launched = TRUE],
                            NewProc(FALSE, FALSE, v))
    /\ UNCHANGED <<env, boot_rest>>

\* the re-launch (78-83): subprocess.run of the script with the venv's python and
\* env["VULNIX_BOOTSTRAPPED"] = "1"; the child's sys.prefix may or may not equal
\* str(venv_dir)
BootstrapLaunch ==
    /\ \E i \in 1..Len(procs) :
        /\ procs[i].at = "launch"
        /\ Len(procs) < MaxProcs
        /\ \E v \in BOOLEAN :
            procs' = Append([procs EXCEPT ![i].at = "waiting", ![i].launched = TRUE],
                            NewProc(TRUE, FALSE, v))
    /\ UNCHANGED <<env, boot_rest>>

\* Faulty variant: after a successful child the parent goes on to main.
BootstrapReapNoExit ==
    /\ \E i \in 1..(Len(procs) - 1) :
        /\ procs[i].at = "waiting"
        /\ procs[i + 1].at = "exited"
        /\ IF procs[i + 1].status = 0
           THEN Goto(i, "main")
           ELSE ExitProc(i, procs[i + 1].status)
    /\ UNCHANGED <<env, boot_rest>>

\* the child has finished (83-86): sys.exit(0), or sys.exit(e.returncode) on
\* CalledProcessError
BootstrapReap ==
    /\ \E i \in 1..(Len(procs) - 1) :
        /\ procs[i].at = "waiting"
        /\ procs[i + 1].at = "exited"
        /\ ExitProc(i, IF procs[i + 1].status = 0 THEN 0 ELSE procs[i + 1].status)
    /\ UNCHANGED <<env, boot_rest>>

\* the imports and main() (91-638): the scan workflow runs in this process
RunMain ==
    /\ \E i \in 1..Len(procs) :
        /\ procs[i].at = "main"
        /\ \E status \in WorkflowStatuses :
            procs' = [procs EXCEPT ![i].at = "exited", ![i].status = status, ![i].ran = TRUE]
    /\ UNCHANGED <<env, boot_rest>>

BootNext ==
    \/ BootstrapGuards
    \/ BootstrapVenvDir
    \/ BootstrapDeps
    \/ BootstrapLaunch
    \/ BootstrapReap
    \/ RunMain

BootSpec == BootInit /\ [][BootNext]_vars

\* every process that can take a step eventually takes one
BootFairSpec == BootSpec /\ WF_vars(BootNext)

-----------------------------------------------------------------------------
(* Vocabulary of the properties.                                           *)

\* the wrapper has run and the file is written
Wrapped == dry_run /\ phase = "saved"

\* index in new_lines of the first line emitted for input line i
Start(i) == i + 3 * Cardinality({j \in 1..(i - 1) : ShouldWrap(lines[j])})

\* How the output accounts for the input, read off the output alone: for each
\* input line in turn, "block" when the next four output lines are a prompt, the
\* test, the input line behind `indent`, and fi; "plain" when the next output
\* line is the input line itself; "bad" (and nothing after it) otherwise.
RECURSIVE ShapeOf(_, _, _)
ShapeOf(ins, out, indent) ==
    IF ins = <<>> THEN (IF out = <<>> THEN <<>> ELSE << "bad" >>)
    ELSE IF /\ Len(out) >= 4
            /\ IsReadLine(out[1])
            /\ out[2] = "if [[ $confirm == [yY] || $confirm == [yY]es ]]; then"
            /\ out[3] = indent \o ins[1]
            /\ out[4] = "fi"
         THEN << "block" >> \o ShapeOf(Tail(ins), SubSeq(out, 5, Len(out)), indent)
    ELSE IF out # <<>> /\ out[1] = ins[1]
         THEN << "plain" >> \o ShapeOf(Tail(ins), Tail(out), indent)
    ELSE << "bad" >>

Shape == ShapeOf(lines, new_lines, "    ")

\* entry i of a shape, "bad" past its end
At(sh, i) == IF i <= Len(sh) THEN sh[i] ELSE "bad"

Emitted(i) == At(Shape, i)

\* a line at column 0 that is neither blank nor a comment
ColumnZero(line) ==
    /\ Strip(line) # ""
    /\ ~StartsWith(Strip(line), "#")
    /\ ~StartsWith(line, " ")
    /\ ~StartsWith(line, "\t")

\* the prompt text for trimmed text t: double quotes escaped, single quotes removed
PromptFor(t) ==
    "read -p \"[DRY-RUN] Execute: " \o Replace(Replace(t, "\"", "\\\""), "'", "") \o "? [y/N] \" confirm"

-----------------------------------------------------------------------------
(* C1 *)

YesAnswers == {"y", "Y", "yes", "Yes"}

\* position of new_lines[1] in the written script, less one (1 when a shebang was added)
Shift == IF new_lines # <<>> /\ StartsWith(new_lines[1], "#!") THEN 0 ELSE 1

\* the input lines classified AtomicCommand
GatedLines == {j \in 1..Len(lines) : ShouldWrap(lines[j])}

\* Start(i), given the set g of gated input lines
StartIn(g, i) == i + 3 * Cardinality({j \in g : j < i})

\* the script lines that are the prompts of the gated input lines
GatedAt == {Shift + Start(i) : i \in GatedLines}

-----------------------------------------------------------------------------
(* C2 *)

\* C2 as stated: every input line is found in the output in order, alone or,
\* character for character, as the third line of a generated block.
C2_Original_VerbatimInOutput ==
    Wrapped => LET sh == ShapeOf(lines, new_lines, "")
               IN  \A i \in 1..Len(lines) : At(sh, i) # "bad"

\* C2 amended: every input line is found in the output in order exactly once,
\* alone and unchanged or, behind four added spaces and otherwise unchanged, as
\* the third line of a generated block; the output holds nothing else.
C2_InputLinesKept ==
    Wrapped => LET sh == Shape
               IN  /\ Len(sh) = Len(lines)
                   /\ \A i \in 1..Len(lines) :
                       /\ sh[i] = "plain" => new_lines[Start(i)] = lines[i]
                       /\ sh[i] = "block" => new_lines[Start(i) + 2] = "    " \o lines[i]
                       /\ sh[i] # "bad"

C2_Witness ==
    /\ Wrapped
    /\ \E i, j \in 1..Len(lines) :
        /\ Emitted(i) = "block"
        /\ new_lines[Start(i) + 2] = "    " \o lines[i]
        /\ Emitted(j) = "plain"
        /\ StartsWith(lines[j], "    ")

-----------------------------------------------------------------------------
(* C3 *)

\* the classifications that pass a line through, as the claim words them
IsBlankLine(line) == Strip(line) = ""
IsCommentLine(line) == StartsWith(Strip(line), "#")
IsIndentedLine(line) == StartsWith(line, " ") \/ StartsWith(line, "\t")
IsStructuralLine(line) == \E k \in 1..Len(COMPLEX_MARKERS) : Contains(Strip(line), COMPLEX_MARKERS[k])

\* C3: a blank, comment, indented or structural input line is emitted as exactly
\* one output line equal to it, whatever else it contains.
C3_PassThroughUnchanged ==
    Wrapped => LET sh == Shape IN \A i \in 1..Len(lines) :
        (IsBlankLine(lines[i]) \/ IsCommentLine(lines[i]) \/ IsIndentedLine(lines[i])
            \/ IsStructuralLine(lines[i]))
        => (At(sh, i) = "plain" /\ new_lines[Start(i)] = lines[i])

\* an indented allow-listed command and a structural line, both passed through
C3_Witness ==
    /\ Wrapped
    /\ \E i, j \in 1..Len(lines) :
        /\ IsIndentedLine(lines[i]) /\ StartsWith(Strip(lines[i]), "rm ")
        /\ Emitted(i) = "plain"
        /\ IsStructuralLine(lines[j]) /\ ~IsIndentedLine(lines[j])
        /\ Emitted(j) = "plain"

-----------------------------------------------------------------------------
(* C4 *)

\* the package managers the claim names
PackageManagers ==
    {"apt", "apt-get", "yum", "dnf", "apk", "pacman", "zypper", "pip", "npm", "yarn", "poetry"}

\* the same, as the wrapper's list spells them
PackageManagerPrefixes ==
    {"apt", "apt-get", "yum", "dnf", "apk", "pacman", "zypper", "pip ", "npm ", "yarn ", "poetry "}

\* the four output lines of input line i are a prompt holding `shown`, the test,
\* the input line (as it is, or behind the block's four spaces) and fi
BlockShows(sh, i, shown) ==
    /\ At(sh, i) = "block"
    /\ IsReadLine(new_lines[Start(i)])
    /\ Contains(new_lines[Start(i)], shown)
    /\ new_lines[Start(i) + 1] = "if [[ $confirm == [yY] || $confirm == [yY]es ]]; then"
    /\ new_lines[Start(i) + 2] \in {lines[i], "    " \o lines[i]}
    /\ new_lines[Start(i) + 3] = "fi"

\* C4 as stated: a column-0 line without structural markers whose trimmed text
\* starts with apt, apt-get, yum, dnf, apk, pacman, zypper, pip, npm, yarn or
\* poetry gets a block whose prompt holds the line's exact trimmed text.
C4_Original_PackageManagerGated ==
    Wrapped => LET sh == Shape IN \A i \in 1..Len(lines) :
        (/\ ColumnZero(lines[i])
         /\ ~IsStructuralLine(lines[i])
         /\ \E m \in PackageManagers : StartsWith(Strip(lines[i]), m))
        => BlockShows(sh, i, Strip(lines[i]))

\* C4 amended: a column-0 line without structural markers whose trimmed text
\* starts with apt, apt-get, yum, dnf, apk, pacman, zypper, or with pip, npm,
\* yarn or poetry followed by a space, gets, consecutively: the prompt line
\* holding its trimmed text with each double quote escaped and the single
\* quotes removed, the test line, the line behind four spaces, and fi.
C4_PackageManagerGated ==
    Wrapped => LET sh == Shape IN \A i \in 1..Len(lines) :
        (/\ ColumnZero(lines[i])
         /\ ~IsStructuralLine(lines[i])
         /\ \E m \in PackageManagerPrefixes : StartsWith(Strip(lines[i]), m))
        => /\ BlockShows(sh, i, Replace(Replace(Strip(lines[i]), "\"", "\\\""), "'", ""))
           /\ new_lines[Start(i)] = PromptFor(Strip(lines[i]))
           /\ new_lines[Start(i) + 2] = "    " \o lines[i]

\* the spec's example, and a pip command with a quoted argument, both gated
C4_Witness ==
    /\ Wrapped
    /\ \/ /\ lines = << "apt-get install -y curl" >>
          /\ new_lines = << "read -p \"[DRY-RUN] Execute: apt-get install -y curl? [y/N] \" confirm",
                            "if [[ $confirm == [yY] || $confirm == [yY]es ]]; then",
                            "    apt-get install -y curl",
                            "fi" >>
       \/ /\ lines = << "pip 'x'" >>
          /\ Emitted(1) = "block"

-----------------------------------------------------------------------------
(* C5 *)

\* a line that opens a loop body: its trimmed text is `do` or ends in ` do` or `;do`
IsDoLine(line) ==
    LET l == Strip(line)
    IN  \/ l = "do"
        \/ Len(l) >= 3 /\ SubSeq(l, Len(l) - 2, Len(l)) \in {" do", ";do"}

IsDoneLine(line) == Strip(line) = "done"

\* input line i lies between a `do` line and its `done` line
InLoop(i) ==
    /\ ~IsDoLine(lines[i])
    /\ ~IsDoneLine(lines[i])
    /\ \E j \in 1..(i - 1) :
        /\ IsDoLine(lines[j])
        /\ \A m \in (j + 1)..(i - 1) : ~IsDoneLine(lines[m])
    /\ \E k \in (i + 1)..Len(lines) : IsDoneLine(lines[k])

-----------------------------------------------------------------------------
(* C6 *)

\* position p of l holds a `>` that is not part of `>>`
LoneRedirectAt(l, p) ==
    /\ Char(l, p) = ">"
    /\ (p = Len(l) \/ Char(l, p + 1) # ">")
    /\ (p = 1 \/ Char(l, p - 1) # ">")

HasOverwriteRedirect(l) == \E p \in 1..Len(l) : LoneRedirectAt(l, p)

\* C6 as stated: a column-0 line without structural markers that holds a `>`
\* which is not part of `>>` gets a block.
C6_Original_OverwriteGated ==
    Wrapped => LET sh == Shape IN \A i \in 1..Len(lines) :
        (/\ ColumnZero(lines[i])
         /\ ~IsStructuralLine(lines[i])
         /\ HasOverwriteRedirect(Strip(lines[i])))
        => At(sh, i) = "block"

\* C6 amended: a column-0 line without structural markers whose trimmed text
\* holds ` > ` (a `>` with a space on each side) and does not hold ` >> ` gets a
\* block, whichever command it starts with.
C6_SpacedOverwriteGated ==
    Wrapped => LET sh == Shape IN \A i \in 1..Len(lines) :
        (/\ ColumnZero(lines[i])
         /\ ~IsStructuralLine(lines[i])
         /\ Contains(Strip(lines[i]), " > ")
         /\ ~Contains(Strip(lines[i]), " >> "))
        => (At(sh, i) = "block" /\ new_lines[Start(i) + 2] = "    " \o lines[i])

C6_Witness ==
    /\ Wrapped
    /\ \E i \in 1..Len(lines) :
        /\ lines[i] = "echo \"x\" > /etc/resolv.conf"
        /\ Emitted(i) = "block"
        /\ new_lines[Start(i) + 2] = "    echo \"x\" > /etc/resolv.conf"

-----------------------------------------------------------------------------
(* C7 *)

\* the allow-listed commands as the spec names them
AllowListed ==
    PackageManagers \cup
    {"rm", "mv", "cp", "chmod", "chown", "dd", "sed", "systemctl", "service",
     "wget", "curl", "dpkg", "rpm"}

\* l holds `>>` and every `>` of l is part of a `>>`
OnlyAppends(l) == Contains(l, ">>") /\ ~HasOverwriteRedirect(l)

\* C7: a column-0 line whose only redirection is `>>` and whose trimmed text does
\* not start with an allow-listed command is emitted unchanged, with no prompt.
C7_AppendNotGated ==
    Wrapped => LET sh == Shape IN \A i \in 1..Len(lines) :
        (/\ ColumnZero(lines[i])
         /\ OnlyAppends(Strip(lines[i]))
         /\ ~\E c \in AllowListed : StartsWith(Strip(lines[i]), c))
        => (At(sh, i) = "plain" /\ new_lines[Start(i)] = lines[i])

C7_Witness ==
    /\ Wrapped
    /\ lines = << "echo \"x\" >> /var/log/app.log" >>
    /\ new_lines = lines

-----------------------------------------------------------------------------
(* C8 *)

\* C8: the output is at least as long as the input, and as long exactly when no
\* input line is classified AtomicCommand.
C8_OutputLength ==
    Wrapped =>
        /\ Len(new_lines) >= Len(lines)
        /\ (Len(new_lines) = Len(lines)) <=> (\A i \in 1..Len(lines) : ~ShouldWrap(lines[i]))

\* a blank line, a gated line and a passed line: three lines in, six out
C8_Witness ==
    /\ Wrapped
    /\ Len(lines) = 3
    /\ lines[1] = ""
    /\ ShouldWrap(lines[2])
    /\ ~ShouldWrap(lines[3])
    /\ Len(new_lines) = 6

-----------------------------------------------------------------------------
(* C9 *)

\* C9: the wrapper run on its own output changes nothing: none of the output
\* lines, and so none of the four lines of a generated block, is classified
\* AtomicCommand.
C9_WrapIdempotent ==
    Wrapped =>
        /\ DryRunWrap(new_lines) = new_lines
        /\ \A p \in 1..Len(new_lines) : WrapLine(new_lines[p]) = << new_lines[p] >>

\* a block whose prompt quotes an overwrite redirection and no backslash
C9_Witness ==
    /\ Wrapped
    /\ \E i \in 1..Len(lines) :
        /\ Emitted(i) = "block"
        /\ Contains(new_lines[Start(i)], " > ")
        /\ ~Contains(new_lines[Start(i)], "\\")
        /\ DryRunWrap(new_lines) = new_lines

-----------------------------------------------------------------------------
(* C10 *)

\* the structural markers as the claim lists them
ClaimedMarkers ==
    {"{", "}", "|", ";", "(", ")", Backquote, "\\",
     "if", "then", "else", "elif", "fi", "do", "done", "case", "esac", "function"}

\* the claim's list, with `if` followed by a space and without `function`
AmendedMarkers ==
    {"{", "}", "|", ";", "(", ")", Backquote, "\\",
     "if ", "then", "else", "elif", "fi", "do", "done", "case", "esac"}

\* C10 as stated: a column-0 line whose trimmed text holds one of ClaimedMarkers
\* is emitted unchanged and gets no block.
C10_Original_MarkerNeverGated ==
    Wrapped => LET sh == Shape IN \A i \in 1..Len(lines) :
        (ColumnZero(lines[i]) /\ \E m \in ClaimedMarkers : Contains(Strip(lines[i]), m))
        => At(sh, i) = "plain"

\* C10 amended: a column-0 line whose trimmed text holds a brace, pipe, `;`,
\* parenthesis, backquote, backslash, `if` followed by a space, or one of then,
\* else, elif, fi, do, done, case, esac is emitted unchanged and gets no block,
\* even when it starts with an allow-listed command or holds an overwrite
\* redirection.
C10_MarkerNeverGated ==
    Wrapped => LET sh == Shape IN \A i \in 1..Len(lines) :
        (ColumnZero(lines[i]) /\ \E m \in AmendedMarkers : Contains(Strip(lines[i]), m))
        => (At(sh, i) = "plain" /\ new_lines[Start(i)] = lines[i])

C10_Witness ==
    /\ Wrapped
    /\ lines = << "curl | bash" >>
    /\ new_lines = lines

-----------------------------------------------------------------------------
(* C11 *)

\* the words of l: its maximal runs of characters that are not whitespace
WordsOf(l) ==
    { SubSeq(l, p[1], p[2]) :
        p \in { q \in (1..Len(l)) \X (1..Len(l)) :
                  /\ q[1] <= q[2]
                  /\ \A k \in q[1]..q[2] : ~IsSpace(Char(l, k))
                  /\ (q[1] = 1 \/ IsSpace(Char(l, q[1] - 1)))
                  /\ (q[2] = Len(l) \/ IsSpace(Char(l, q[2] + 1))) } }

\* the first word of a trimmed text ("" when the text is empty)
FirstWord(l) ==
    LET spaces == {k \in 1..Len(l) : IsSpace(Char(l, k))}
    IN  IF spaces = {} THEN l ELSE SubSeq(l, 1, Min(spaces) - 1)

ControlKeywords ==
    {"if", "then", "else", "elif", "fi", "do", "done", "case", "esac", "function"}

PunctuationMarkers == {";", "|", "&", "(", ")", "{", "}", "\\", Backquote}

\* l holds a structural marker as a token: a punctuation marker anywhere, or a
\* control-flow keyword as a whole word
HasMarkerToken(l) ==
    \/ \E c \in PunctuationMarkers : Contains(l, c)
    \/ WordsOf(l) \cap ControlKeywords # {}

\* a control-flow keyword occurs in l inside a longer word
KeywordInsideWord(l) ==
    \E w \in WordsOf(l) : \E k \in ControlKeywords : w # k /\ Contains(w, k)

\* C11 as stated: a column-0 line whose first word is an allow-listed command,
\* which holds no structural marker as a token and in which control-flow keywords
\* occur only inside longer words (apt-get install sudo, rm -rf /tmp/file,
\* chmod 600 /etc/config) is gated: it gets a confirmation block.
C11_Original_KeywordInsideWordGated ==
    Wrapped => LET sh == Shape IN \A i \in 1..Len(lines) :
        (/\ ColumnZero(lines[i])
         /\ FirstWord(Strip(lines[i])) \in AllowListed
         /\ ~HasMarkerToken(Strip(lines[i]))
         /\ KeywordInsideWord(Strip(lines[i])))
        => At(sh, i) = "block"

-----------------------------------------------------------------------------
(* C12 *)

\* C12 as stated: a column-0 line without structural markers gets a block by
\* prefix only if its first word is an allow-listed command (followed by nothing
\* or by arguments); a line whose first word is anything else, even a word that
\* begins with the letters of an allow-listed command (service_name=nginx,
\* aptitude ...), and that holds no overwrite redirection is emitted unchanged.
C12_Original_OnlyListedCommandsGated ==
    Wrapped => LET sh == Shape IN \A i \in 1..Len(lines) :
        (/\ ColumnZero(lines[i])
         /\ FirstWord(Strip(lines[i])) \notin AllowListed
         /\ ~HasOverwriteRedirect(Strip(lines[i])))
        => (At(sh, i) = "plain" /\ new_lines[Start(i)] = lines[i])

-----------------------------------------------------------------------------
(* C13 *)

PromptHead == "read -p \"[DRY-RUN] Execute: "
PromptTail == "? [y/N] \" confirm"

\* the command text a prompt line embeds
Embedded(p) == SubSeq(p, Len(PromptHead) + 1, Len(p) - Len(PromptTail))

\* the number of backslashes that stand immediately before position k of s
BackslashesBefore(s, k) ==
    LET others == {j \in 1..(k - 1) : Char(s, j) # "\\"}
    IN  IF others = {} THEN k - 1
        ELSE k - 1 - (CHOOSE j \in others : \A m \in others : m <= j)

\* the double quotes of s that the shell does not read as escaped: those with an
\* even number of backslashes immediately before them
BareQuotes(s) ==
    {k \in 1..Len(s) : Char(s, k) = "\"" /\ BackslashesBefore(s, k) % 2 = 0}

\* C13: in the prompt line of every gated line, the embedded command text holds
\* no single quote and no double quote that is not immediately preceded by a
\* backslash, and the only double quotes of the prompt line the shell reads as
\* quotes are the wrapper's own opening and closing ones.
C13_PromptQuotesEscaped ==
    Wrapped => LET sh == Shape IN \A i \in 1..Len(lines) :
        At(sh, i) = "block" =>
            LET p == new_lines[Start(i)]
                e == Embedded(p)
            IN  /\ StartsWith(p, PromptHead)
                /\ p = PromptHead \o e \o PromptTail
                /\ ~Contains(e, "'")
                /\ \A k \in 1..Len(e) :
                       Char(e, k) = "\"" => (k > 1 /\ Char(e, k - 1) = "\\")
                /\ BareQuotes(p) = {9, Len(p) - 8}

\* a gated line with double quotes, shown escaped in its prompt
C13_Witness ==
    /\ Wrapped
    /\ \E i \in 1..Len(lines) :
        /\ Emitted(i) = "block"
        /\ lines[i] = "apt \"x\""
        /\ Embedded(new_lines[Start(i)]) = "apt \\\"x\\\""
        /\ Cardinality(BareQuotes(new_lines[Start(i)])) = 2

-----------------------------------------------------------------------------
(* C14 *)

\* C14: the output holds, for each input line in input order, exactly what the
\* wrapper emits for that line alone; so wrapping the input equals wrapping any
\* front part of it followed by wrapping the rest.
C14_NoCrossLineState ==
    Wrapped =>
        /\ \A k \in 0..Len(lines) :
               new_lines = DryRunWrap(SubSeq(lines, 1, k))
                               \o DryRunWrap(SubSeq(lines, k + 1, Len(lines)))
        /\ \A i \in 1..Len(lines) :
               SubSeq(new_lines, Len(DryRunWrap(SubSeq(lines, 1, i - 1))) + 1,
                                 Len(DryRunWrap(SubSeq(lines, 1, i))))
                   = DryRunWrap(<< lines[i] >>)

\* an allow-listed command at column 0 between a `do` line and its `done` line:
\* it is gated exactly as it is when it stands alone
C14_Witness ==
    /\ Wrapped
    /\ lines = << "for f in a b; do", "rm -rf $f", "done" >>
    /\ Emitted(2) = "block"
    /\ new_lines = << lines[1] >> \o DryRunWrap(<< lines[2] >>) \o << lines[3] >>

-----------------------------------------------------------------------------
(* C15 *)

\* the classification of a line: the first of the steps that applies to it
ClassOf(line) ==
    IF IsBlankLine(line) THEN "Blank"
    ELSE IF IsCommentLine(line) THEN "Comment"
    ELSE IF IsIndentedLine(line) THEN "Indented"
    ELSE IF IsStructuralLine(line) THEN "Structural"
    ELSE IF \/ \E k \in 1..Len(DANGEROUS_COMMANDS) : StartsWith(Strip(line), DANGEROUS_COMMANDS[k])
            \/ Contains(Strip(line), " > ") /\ ~Contains(Strip(line), " >> ")
         THEN "AtomicCommand"
    ELSE "Other"

\* C15: with dry_run, save_script leaves for every input line (empty, whitespace
\* only, or any text) exactly one output: the four-line block when the line is an
\* AtomicCommand, the line itself in every other class; the loop has gone once
\* through every line and the output holds nothing else.  A script text that is
\* empty is the only one for which nothing is written.
C15_ClassifierTotal ==
    /\ phase = "skipped" => (content = "" /\ file = NoFile)
    /\ Wrapped =>
        LET sh == Shape
        IN  /\ Len(sh) = Len(lines)
            /\ lines = SplitLines(content)
            /\ Len(new_lines) =
                   Len(lines) + 3 * Cardinality({i \in 1..Len(lines) : sh[i] = "block"})
            /\ \A i \in 1..Len(lines) :
                /\ sh[i] \in {"plain", "block"}
                /\ sh[i] = "block" <=> ClassOf(lines[i]) = "AtomicCommand"
                /\ sh[i] = "plain" <=>
                       ClassOf(lines[i]) \in {"Blank", "Comment", "Indented", "Structural", "Other"}

\* a script with a line of whitespace only between a line of class Other and an
\* AtomicCommand: three lines in, six out
C15_Witness ==
    /\ Wrapped
    /\ lines = << "x=1", " \t", "rm -rf $f" >>
    /\ Shape = << "plain", "plain", "block" >>
    /\ Len(new_lines) = 6

-----------------------------------------------------------------------------
(* C16 *)

\* the lines of a text that belong to a confirmation block: prompts and tests
GateLines(text) ==
    LET ls == ShellLines(text)
    IN  {k \in 1..Len(ls) :
            \/ StartsWith(ls[k], "read -p ")
            \/ ls[k] = "if [[ $confirm == [yY] || $confirm == [yY]es ]]; then"}

\* C16: without dry_run the wrapper does not run and the file holds the script
\* text as it was generated (after the shebang line, when one had to be added),
\* with no prompt and no test line, even when a line of the script is an
\* AtomicCommand; with dry_run the wrapper has run: the file holds the wrapper's
\* output, in which every AtomicCommand line has its prompt.
C16_DryRunFlagGatesWrapper ==
    phase = "saved" =>
        /\ ~dry_run =>
            /\ lines = <<>> /\ new_lines = <<>>
            /\ file.text = (IF StartsWith(content, "#!") THEN content
                            ELSE "#!/bin/bash\n" \o content)
            /\ GateLines(file.text) = {}
        /\ dry_run =>
            /\ lines = SplitLines(content)
            /\ file.text \in {Join(new_lines), "#!/bin/bash\n" \o Join(new_lines)}
            /\ Cardinality(GateLines(file.text))
                   = 2 * Cardinality({i \in 1..Len(lines) : ClassOf(lines[i]) = "AtomicCommand"})

\* the spec's example of an AtomicCommand written without dry_run: no block
C16_Witness ==
    /\ ~dry_run
    /\ phase = "saved"
    /\ content = "apt-get install -y curl"
    /\ file.text = "#!/bin/bash\napt-get install -y curl"

-----------------------------------------------------------------------------
(* C17 *)

\* the text save_script has to write: the wrapper's output with dry_run, the
\* generated text without
ToWrite == IF dry_run THEN Join(new_lines) ELSE content

\* C17: the written file begins with #!; it is the text to write, preceded by
\* the line #!/bin/bash exactly when that text does not itself begin with #!;
\* and its mode is 0755.  With and without dry_run.
C17_ShebangAndMode ==
    phase = "saved" =>
        /\ file.exists
        /\ StartsWith(file.text, "#!")
        /\ StartsWith(ToWrite, "#!") => file.text = ToWrite
        /\ ~StartsWith(ToWrite, "#!") => file.text = "#!/bin/bash\n" \o ToWrite
        /\ mode = 7 * 64 + 5 * 8 + 5

\* a script whose first line is gated: the shebang line comes before the prompt
C17_Witness ==
    /\ Wrapped
    /\ Len(lines) >= 2
    /\ Emitted(1) = "block"
    /\ StartsWith(file.text, "#!/bin/bash\nread -p \"[DRY-RUN] Execute: ")
    /\ mode = 7 * 64 + 5 * 8 + 5

-----------------------------------------------------------------------------
(* C18 *)

\* the place of a step in the order of main
StepIndex(s) == CHOOSE k \in 1..Len(Steps) : Steps[k] = s

Ran(s) == \E j \in 1..Len(trace) : trace[j].step = s
Failed(s) == \E j \in 1..Len(trace) : trace[j].step = s /\ ~trace[j].ok

\* step s was carried out with success before the k-th entry of the trace
SucceededBefore(s, k) == \E j \in 1..(k - 1) : trace[j].step = s /\ trace[j].ok

\* the steps are carried out in the order of `Steps`, each at most once; each one
\* only after every step of `needed` that comes before it has succeeded; the fix
\* script is written only after every step of `needed` has succeeded
InOrderAfter(needed) ==
    /\ \A k1, k2 \in 1..Len(trace) :
           k1 < k2 => StepIndex(trace[k1].step) < StepIndex(trace[k2].step)
    /\ \A k \in 1..Len(trace) : \A j \in 1..(StepIndex(trace[k].step) - 1) :
           Steps[j] \in needed => SucceededBefore(Steps[j], k)
    /\ file.exists => \A j \in 1..Len(Steps) :
           Steps[j] \in needed => SucceededBefore(Steps[j], Len(trace) + 1)

\* after a failure of the dependency check, of sudo or of the scan the program
\* has exited with status 1; no report was parsed, no LLM request sent, no fix
\* script written
FailFast ==
    (Failed("check_dependencies") \/ Failed("ensure_sudo") \/ Failed("trivy_scan")) =>
        /\ phase = "exited" /\ exit_code = 1
        /\ ~Ran("analyze_report") /\ ~Ran("llm_request")
        /\ ~file.exists

AllSteps == {Steps[j] : j \in 1..Len(Steps)}

\* C18 as stated: the steps happen in the fixed order dependency check, sudo
\* credential refresh, scan, report parsing, HTML dashboard, LLM request, fix
\* script write; a step runs only after every earlier one has succeeded; and a
\* failure of one of the first three ends the program with status 1.
C18_Original_FixedOrder == InOrderAfter(AllSteps) /\ FailFast

\* C18 amended: the same, except that on Windows the sudo credential refresh is
\* not carried out, and the scan and the later steps run without it.
C18_FixedOrderFailFast ==
    InOrderAfter(IF env.windows THEN AllSteps \ {"ensure_sudo"} ELSE AllSteps) /\ FailFast

\* a complete run on Linux: six steps in order, the fix script written, status 0
C18_Witness ==
    /\ ~env.windows
    /\ trace = [k \in 1..6 |-> [step |-> Steps[k], ok |-> TRUE]]
    /\ file.exists
    /\ phase = "exited"
    /\ exit_code = 0

-----------------------------------------------------------------------------
(* C19 *)

\* How the output of another revision accounts for its input: for each input
\* line in turn, "block" when the next output line is a prompt (the block ends
\* with its fi), "plain" when it is the input line itself, "stripped" when it is
\* the input line without its indentation, "bad" otherwise.
RECURSIVE RevShapeOf(_, _)
RevShapeOf(ins, out) ==
    IF ins = <<>> THEN (IF out = <<>> THEN <<>> ELSE << "bad" >>)
    ELSE IF out = <<>> THEN << "bad" >>
    ELSE IF StartsWith(out[1], "read -p ")
         THEN LET fis == {k \in 1..Len(out) : out[k] = "fi"}
              IN  IF fis = {} THEN << "bad" >>
                  ELSE << "block" >> \o RevShapeOf(Tail(ins), SubSeq(out, Min(fis) + 1, Len(out)))
    ELSE IF out[1] = ins[1] THEN << "plain" >> \o RevShapeOf(Tail(ins), Tail(out))
    ELSE IF out[1] = Strip(ins[1]) THEN << "stripped" >> \o RevShapeOf(Tail(ins), Tail(out))
    ELSE << "bad" >>

\* C19 as stated: in vGemini, TestReportingHTML and v18-4, an input line that is
\* indented, or that holds a structural token (brace, pipe, semicolon,
\* parenthesis, control-flow keyword), gets no confirmation block and is written
\* to the output unchanged.
C19_Original_OtherRevisionsNeverWrap ==
    (revision \in OtherRevisions /\ dry_run /\ phase = "saved") =>
        LET sh == RevShapeOf(lines, new_lines)
        IN  \A i \in 1..Len(lines) :
                (IsIndentedLine(lines[i]) \/ HasMarkerToken(Strip(lines[i])))
                => At(sh, i) = "plain"

-----------------------------------------------------------------------------
(* C20 *)

\* C20 as stated: the fix script trivy_auto_fix_v18-4 writes with --dry-run
\* holds `pip install python3` nowhere, neither in a block nor as a bare command.
C20_Original_PipPython3Skipped ==
    (revision = "trivy_auto_fix_v18-4" /\ dry_run /\ phase = "saved") =>
        ~Contains(file.text, "pip install python3")

-----------------------------------------------------------------------------
(* C21 *)

\* the fix script written last (the stamps grow from run to run)
NewestScript == CHOOSE x \in desktop.scripts : \A y \in desktop.scripts : y <= x

\* no run is between its write and its symlink update
BetweenRunSteps == run.at # "link"

-----------------------------------------------------------------------------
(* C22 *)

\* all vulnerabilities of a list of vulnerability lists, in order
RECURSIVE Flatten(_)
Flatten(ls) == IF ls = <<>> THEN <<>> ELSE Head(ls) \o Flatten(Tail(ls))

\* the vulnerabilities of the severity-filtered report, over all its targets
Eligible ==
    Flatten([k \in 1..Len(run.report_data) |->
                IF run.fix_level = "high" THEN HighOnly(run.report_data[k])
                ELSE run.report_data[k]])

\* the vulnerabilities forwarded to the LLM, over all targets
Forwarded == Flatten([k \in 1..Len(run.filtered_results) |-> run.filtered_results[k].vulns])

\* C22 as stated: with --top-CVES=N, N > 0, the forwarded report of v18-4 holds
\* at most N vulnerabilities in total, each of them among the N with the highest
\* CVSS score of the whole severity-filtered report, however many targets
\* the report has.
C22_Original_TopCvesOverWholeReport ==
    (run.at = "estimate" /\ run.top_cves > 0) =>
        /\ Len(Forwarded) <= run.top_cves
        /\ \A i \in 1..Len(Forwarded) :
              Cardinality({j \in 1..Len(Eligible) : Eligible[j].score > Forwarded[i].score})
                  < run.top_cves

-----------------------------------------------------------------------------
(* C23 *)

\* the request to Gemini has been issued (whether or not it succeeded)
RequestIssued == \E k \in 1..Len(trace) : trace[k].step = "llm_request"

\* C23 as stated: in a run started without arguments (TUI mode), the request to
\* Gemini is issued only after "Do you want Gemini to generate a fix script?"
\* was answered with yes, whatever the dry-run choice was.
C23_Original_RequestOnlyAfterYes ==
    (tui /\ RequestIssued) => consent = "yes"

-----------------------------------------------------------------------------
(* C24 *)

\* the processes that have re-launched the script
Launchers == {i \in 1..Len(procs) : procs[i].launched}

AllExited == \A i \in 1..Len(procs) : procs[i].at = "exited"

\* a bootstrapped or frozen process has not re-launched, every child has the
\* variable set, and one invocation has seen at most one re-launch
NoRelaunchLoop ==
    /\ \A i \in 1..Len(procs) :
          (procs[i].bootstrapped \/ procs[i].frozen) => ~procs[i].launched
    /\ \A i \in 2..Len(procs) : procs[i].bootstrapped
    /\ Cardinality(Launchers) <= 1
    /\ Len(procs) <= 2

\* C24: the bootstrap of Vulnix-TestVersion cannot loop: a process started with
\* VULNIX_BOOTSTRAPPED=1 (or frozen) never re-launches the script, every child is
\* started with the variable set, an invocation causes at most one re-launch, and
\* the chain of processes comes to an end, also when the child's venv detection
\* fails.
C24_BootstrapCannotLoop == []NoRelaunchLoop /\ <>[]AllExited

\* a child whose sys.prefix is not the venv directory has run main and exited,
\* and so has its parent
C24_Witness ==
    /\ Len(procs) = 2
    /\ ~procs[2].in_venv /\ procs[2].ran
    /\ AllExited

-----------------------------------------------------------------------------
(* C25 *)

\* C25: a process that re-launches the script never runs the scan workflow
\* itself; once its child has finished it exits, with status 0 when
\* the child succeeded and with the child's return code otherwise; the workflow
\* runs in at most one process of an invocation.
C25_LauncherNeverRunsWorkflow ==
    /\ \A i \in Launchers :
          /\ ~procs[i].ran
          /\ procs[i].at \in {"waiting", "exited"}
          /\ procs[i].at = "exited" =>
                /\ procs[i + 1].at = "exited"
                /\ procs[i].status = procs[i + 1].status
    /\ Cardinality({i \in 1..Len(procs) : procs[i].ran}) <= 1

\* a parent has exited with the failure status of its child
C25_Witness ==
    /\ Len(procs) = 2
    /\ procs[1].at = "exited" /\ procs[2].ran
    /\ procs[1].status = 2 /\ procs[2].status = 2

-----------------------------------------------------------------------------
(* C26 *)

\* the step has been started in this run
Begun(step) == \E k \in 1..Len(trace) : trace[k].step = step

\* C26: when the parsed report holds no vulnerability, Vulnix-TestVersion exits
\* with status 0 right after the summary: no HTML dashboard, no LLM request, no
\* fix script; and a dashboard, a request or a fix script only ever exists for a
\* report with at least one vulnerability.
C26_CleanReportExitsAtOnce ==
    /\ total = 0 =>
          /\ phase = "exited" /\ exit_code = 0
          /\ trace[Len(trace)].step = "analyze_report"
          /\ ~Begun("generate_html_report") /\ ~Begun("llm_request")
          /\ file = NoFile
    /\ (Begun("generate_html_report") \/ Begun("llm_request") \/ file.exists
        \/ phase \in {"generate_html_report", "generate_fix", "start", "saved", "skipped"})
          => total >= 1

\* a scan that went through found no vulnerability
C26_Witness ==
    /\ total = 0
    /\ phase = "exited"
    /\ Begun("trivy_scan")

-----------------------------------------------------------------------------
(* C27 *)

\* the request to Gemini was sent and raised
RequestFailed == \E k \in 1..Len(trace) : trace[k].step = "llm_request" /\ ~trace[k].ok

\* generate_fix has returned: save_script is called, or has run, or main has
\* returned after it
FixReturned ==
    \/ phase \in {"start", "skipped", "saved"}
    \/ /\ phase = "exited"
       /\ \E k \in 1..Len(trace) : trace[k].step = "generate_html_report" /\ trace[k].ok

\* C27: when fix generation yields no content (no API key, the operator
\* declines, the LLM call raises, the reply is empty), generate_fix returns
\* nothing, save_script returns without creating, truncating or chmod-ing a
\* fix-script file, and the program ends normally.
C27_NoContentNoFile ==
    FixReturned =>
        /\ (~env.api_key \/ consent = "no" \/ RequestFailed) => content = ""
        /\ content = "" =>
              /\ phase # "saved"
              /\ file = NoFile /\ mode = 0
              /\ phase = "exited" => exit_code = 0

\* the model replied with nothing but a fence: the program has ended, no file
C27_Witness ==
    /\ phase = "exited" /\ exit_code = 0
    /\ Begun("llm_request") /\ ~RequestFailed
    /\ content = ""
    /\ file = NoFile

-----------------------------------------------------------------------------
(* C28 *)

\* the estimate of this run passed the limit test
EstimateWithinLimit ==
    \E k \in 1..Len(trace) : trace[k].step = "estimate" /\ trace[k].ok

\* the estimate of this run exceeded MAX_INPUT_TOKENS
EstimateTooLarge ==
    \E k \in 1..Len(trace) : trace[k].step = "estimate" /\ ~trace[k].ok

\* the run was ended by an answer other than y
Declined == run.at = "exited" /\ EstimateWithinLimit /\ confirm # "y"

\* the request follows a passed limit test and the answer y; the two early exits
\* have the stated status and nothing of the run on disk
RequestNeedsLimitAndYes ==
    /\ Begun("openai_request") =>
          /\ EstimateWithinLimit /\ run.at # "confirm" /\ confirm = "y"
          /\ run.at # "exited" => run.tokens_total <= MAX_INPUT_TOKENS
    /\ EstimateTooLarge => run.at = "exited" /\ exit_code = 1
    /\ Declined => exit_code = 0
    /\ (EstimateTooLarge \/ Declined) =>
          /\ ~Begun("openai_request")
          /\ file = NoFile
          /\ run.stamp \notin desktop.scripts
          /\ desktop.latest.kind = "link" => desktop.latest.target < run.stamp

\* the limit test and the proceed question leave ~/Desktop and the fix script alone
GateStepsTouchNothing ==
    run.at \in {"estimate", "confirm"} => (desktop' = desktop /\ file' = file /\ mode' = mode)

\* C28: v18-4 sends the OpenAI request only when the estimated token total is at
\* most 28000 and the answer to the proceed question, trimmed and lower-cased,
\* is y; an estimate above 28000 ends the run with status 1, any other answer with
\* status 0, and in both cases no request is sent, no fix script is written and
\* the latest-symlink is left as it was.
C28_RequestNeedsLimitAndYes == []RequestNeedsLimitAndYes /\ [][GateStepsTouchNothing]_vars

\* a second run that was declined with "yes" after a first run wrote and linked
\* its script
C28_Witness ==
    /\ run.stamp = 2
    /\ Declined /\ confirm = "yes"
    /\ desktop.scripts = {1}
    /\ desktop.latest = [kind |-> "link", target |-> 1]

====
